---- MODULE Spec2Model ----
(***************************************************************************)
(* Model of the kiosk browser shell: the background refresh engine of a   *)
(* pane (BrowserWindow), the layout application engine of the controller  *)
(* (ApplicationController.apply_layout) and the geometry normaliser used  *)
(* by the save operations.                                                 *)
(*                                                                         *)
(* Single-shot timers are modelled without a clock: a pending timer may   *)
(* fire at any later moment, in any order with the other pending timers   *)
(* and with the events of the browser engine (a page load takes an        *)
(* arbitrary time, so the phase of the 60 s refresh timer relative to the *)
(* 1 s / 2 s / 50 ms timers of a load is arbitrary).                      *)
(***************************************************************************)
EXTENDS Integers, Sequences, FiniteSets, TLC

\* ------------------------------------------------------------------ bounds
MaxLoads == 2       \* background loads started by the refresh timer
MaxPending == 2     \* single-shot timers pending at the same time
MaxCoord == 3       \* |x|, |y| of the pixel rectangles fed to the normaliser
MaxSize == 15       \* width, height of those rectangles
MaxSaves == 1       \* save operations that store a record
MaxEdits == 1       \* drags and resizes with the edit overlay

\* --------------------------------------------------------------- constants
None == 0                         \* Python None for object references
Unset == -1                       \* attribute not assigned yet
ProgressValues == {0, 80, 100}    \* loadProgress values the engine reports
Kinds == {"recheck", "check", "swap", "cleanup"}
Urls == {"", "u"}                 \* an empty and a non-empty configured url
WindowIds == {"sharepoint_document", "powerbi_report", "google_search"}
ScreenSizes == {<<1280, 1024>>}   \* primaryScreen().geometry()

VARIABLES
    \* BrowserWindow fields
    window_id, current_url, refresh_timer,
    background_browser, background_window, background_load_progress,
    page,            \* page shown by self.browser (0: the page of __init__)
    \* event loop
    pending,         \* pending QTimer.singleShot callbacks, per kind
    closed,          \* closeEvent has run
    bg_deleted,      \* the surface behind background_browser was deleteLater'd
    aborted,         \* an exception escaped a slot
    \* history
    loads,           \* surfaces created so far; the newest one is number loads
    nfinished,       \* loadFinished signals of the current surface (2: several)
    early,           \* one of them reported success below 100 %
    reached100,      \* progress 100 was recorded for the current surface
    failed,          \* loadFinished(False) was delivered for the current surface
    nswaps,          \* swaps that installed the current surface (2: several)
    ev,              \* the handler that ran last: <<name, detail, timer armed>>
    surfaces,        \* off-screen windows created and not closed so far
    timers,          \* QTimers started by _setup_background_refresh, not stopped
    replaced         \* the last tick found a surface of an earlier cycle

res_vars == <<surfaces, timers, replaced>>
engine_vars == <<window_id, current_url, refresh_timer, background_browser,
                 background_window, background_load_progress, page, pending,
                 closed, bg_deleted, aborted, loads, nfinished, early,
                 reached100, failed, nswaps, ev, res_vars>>

VARIABLES
    \* ApplicationController fields
    screen_geometry, windows, window_configs, layouts_data, layouts_keys,
    is_edit_mode,
    \* ViewManager
    views, current_view,
    \* FloatingActionMenu and ViewSelectorBar
    is_expanded, menu_shown,
    \* ScreenManagerDialog
    dlg_open, selected_layout_name, current_assignments,
    \* history
    raised,          \* an exception left a controller handler
    op,              \* the controller operation that ran last
    open_panes       \* ids of the BrowserWindow objects that exist, one per object

ctl_vars == <<screen_geometry, windows, window_configs, layouts_data,
              layouts_keys, is_edit_mode, views, current_view, is_expanded, menu_shown,
              dlg_open, selected_layout_name, current_assignments, raised, op,
              open_panes>>

VARIABLES
    \* one run of the geometry normaliser
    nz_rect,         \* the pixel rectangle <<x, y, width, height>>
    nz_screen,       \* the screen size <<width, height>>
    nz_stored,       \* the fractional rectangle a save writes for it
    nz_out,          \* the pixel rectangle apply_layout computes from that
    nz_pc

nz_vars == <<nz_rect, nz_screen, nz_stored, nz_out, nz_pc>>

VARIABLES
    \* the stores on disk and the save operations
    window_order,    \* key order of self._windows (insertion order)
    layouts_file,    \* content of the layouts file
    views_file,      \* content of config/views.json
    layouts_file0,   \* history: the layouts file when the program started
    views_file0,     \* history: the views file when the program started
    ui,              \* the dialogs the last save operation showed
    nsaves,          \* save operations that went on to store a record
    nedits,          \* drags and resizes done with the edit overlay
    saved_px         \* history: pixel geometry of the windows a layout or view was saved from

file_vars == <<layouts_file, views_file, layouts_file0, views_file0>>
save_vars == <<ui, nsaves, nedits, saved_px>>
store_vars == <<window_order, file_vars, save_vars>>

vars == <<engine_vars, ctl_vars, nz_vars, store_vars>>

NoTimers == [k \in Kinds |-> 0]
Arm(p, k) == [p EXCEPT ![k] = @ + 1]
Fire(p, k) == [p EXCEPT ![k] = @ - 1]
Event(h, arg, armed) == <<h, arg, armed>>
Capped(n) == IF n > 2 THEN 2 ELSE n
Pending == pending["recheck"] + pending["check"] + pending["swap"]
           + pending["cleanup"]

\* ------------------------------------------------- BrowserWindow.__init__
InitEngine ==
    /\ window_id = "" /\ current_url = "" /\ refresh_timer = "None"
    /\ background_browser = None /\ background_window = None
    /\ background_load_progress = Unset
    /\ page = 0
    /\ pending = NoTimers
    /\ closed = FALSE /\ bg_deleted = FALSE /\ aborted = FALSE
    /\ loads = 0 /\ nfinished = 0 /\ early = FALSE
    /\ reached100 = FALSE /\ failed = FALSE /\ nswaps = 0
    /\ ev = Event("init", "", "none")
    /\ surfaces = {} /\ timers = 0 /\ replaced = FALSE

\* window_id == "sharepoint_document" (load_url)
NeedsRefresh(wid) == wid = "sharepoint_document"

StopTimer_skipped(state, n) == n
\* if self.refresh_timer: self.refresh_timer.stop()
StopTimer(state, n) == IF state = "running" THEN n - 1 ELSE n

\* _setup_background_refresh: the number of running timers it leaves
SetupBackgroundRefresh(state, n) == StopTimer(state, n) + 1

\* load_url, called once by create_window_from_config on the new window
LoadUrl(url, wid) ==
    /\ ~aborted /\ ~closed /\ ev[1] = "init"
    /\ window_id' = wid
    /\ current_url' = url
    /\ refresh_timer' = IF NeedsRefresh(wid) THEN "running" ELSE refresh_timer
    /\ timers' = IF NeedsRefresh(wid)
                 THEN SetupBackgroundRefresh(refresh_timer, timers) ELSE timers
    /\ ev' = Event("load_url", wid, "none")
    /\ UNCHANGED <<ctl_vars, nz_vars, store_vars, background_browser, background_window,
                   background_load_progress, page, pending, closed,
                   bg_deleted, aborted, loads, nfinished, early, reached100,
                   failed, nswaps, surfaces, replaced>>

\* load_url called again on the window
ReloadUrl(url, wid) ==
    /\ ~aborted /\ ev[1] # "init"
    /\ window_id' = wid
    /\ current_url' = url
    /\ refresh_timer' = IF NeedsRefresh(wid) THEN "running" ELSE refresh_timer
    /\ timers' = IF NeedsRefresh(wid)
                 THEN SetupBackgroundRefresh(refresh_timer, timers) ELSE timers
    /\ ev' = Event("reload_url", wid, "none")
    /\ UNCHANGED <<ctl_vars, nz_vars, store_vars, background_browser, background_window,
                   background_load_progress, page, pending, closed,
                   bg_deleted, aborted, loads, nfinished, early, reached100,
                   failed, nswaps, surfaces, replaced>>

DisposePrevious_kept(live, win) == live
\* if self.background_window: close(); deleteLater()
DisposePrevious(live, win) == IF win # None THEN live \ {win} ELSE live

\* _start_background_load, the slot of refresh_timer.timeout
StartBackgroundLoad ==
    /\ ~aborted /\ refresh_timer = "running" /\ loads < MaxLoads
    /\ IF current_url = ""
       THEN /\ ev' = Event("start", "nourl", "none")
            /\ UNCHANGED <<background_browser, background_window,
                           background_load_progress, bg_deleted, loads,
                           nfinished, early, reached100, failed, nswaps,
                           surfaces, replaced>>
       ELSE /\ surfaces' = DisposePrevious(surfaces, background_window)
                              \cup {loads + 1}
            /\ replaced' = (background_window # None)
            /\ background_window' = loads + 1
            /\ background_browser' = loads + 1
            /\ background_load_progress' = 0
            /\ bg_deleted' = FALSE
            /\ loads' = loads + 1
            /\ nfinished' = 0 /\ early' = FALSE /\ reached100' = FALSE
            /\ failed' = FALSE /\ nswaps' = 0
            /\ ev' = Event("start", "load", "none")
    /\ UNCHANGED <<ctl_vars, nz_vars, store_vars, window_id, current_url, refresh_timer, page, pending,
                   closed, aborted, timers>>

\* the surface is alive and can emit loadProgress / loadFinished
SurfaceEmits == background_browser # None /\ ~bg_deleted

\* _on_background_load_progress
OnBackgroundLoadProgress(progress) ==
    /\ ~aborted /\ SurfaceEmits
    /\ background_load_progress' = progress
    /\ reached100' = (reached100 \/ progress = 100)
    /\ ev' = Event("progress", "", "none")
    /\ UNCHANGED <<ctl_vars, nz_vars, store_vars, res_vars, window_id, current_url, refresh_timer, background_browser,
                   background_window, page, pending, closed, bg_deleted,
                   aborted, loads, nfinished, early, failed, nswaps>>

LoadIncomplete_dropped(progress) == FALSE
\* self.background_load_progress < 100
LoadIncomplete(progress) == progress < 100

\* not success or not self.background_browser
LoadFailed(success, browser) == ~success \/ browser = None

\* body of _on_background_load_finished(success): the timer it arms
FinishedArms(success) ==
    IF LoadFailed(success, background_browser) THEN "none"
    ELSE IF LoadIncomplete(background_load_progress) THEN "recheck"
    ELSE "check"

\* _on_background_load_finished(success), run as the slot h of loadFinished
\* ("finished") or from the re-check timer ("recheck"), with timers p pending
OnBackgroundLoadFinishedBody(h, success, p) ==
    LET k == FinishedArms(success) IN
    /\ pending' = IF k = "none" THEN p ELSE Arm(p, k)
    /\ ev' = Event(h, IF success THEN "ok" ELSE "fail", k)
    /\ UNCHANGED <<background_browser, background_window>>

\* loadFinished emitted by the background surface
OnBackgroundLoadFinished(success) ==
    /\ ~aborted /\ SurfaceEmits /\ Pending < MaxPending
    /\ OnBackgroundLoadFinishedBody("finished", success, pending)
    /\ nfinished' = Capped(nfinished + 1)
    /\ early' = (early \/ (success /\ background_load_progress < 100))
    /\ failed' = (failed \/ ~success)
    /\ UNCHANGED <<ctl_vars, nz_vars, store_vars, res_vars, window_id, current_url, refresh_timer,
                   background_load_progress, page, closed, bg_deleted,
                   aborted, loads, reached100, nswaps>>

\* QTimer.singleShot(1000, lambda: self._on_background_load_finished(True))
RecheckTimeout ==
    /\ ~aborted /\ pending["recheck"] > 0
    /\ OnBackgroundLoadFinishedBody("recheck", TRUE, Fire(pending, "recheck"))
    /\ UNCHANGED <<ctl_vars, nz_vars, store_vars, res_vars, window_id, current_url, refresh_timer,
                   background_load_progress, page, closed, bg_deleted,
                   aborted, loads, nfinished, early, reached100, failed,
                   nswaps>>

\* _check_and_perform_swap, fired 2000 ms after a complete load-finished
CheckAndPerformSwap ==
    /\ ~aborted /\ pending["check"] > 0
    /\ IF background_browser = None
       THEN /\ pending' = Fire(pending, "check")
            /\ ev' = Event("check", "", "none")
            /\ UNCHANGED aborted
       ELSE IF bg_deleted
       THEN \* repaint() on a deleted wrapper raises out of the slot
            /\ pending' = Fire(pending, "check")
            /\ aborted' = TRUE
            /\ ev' = Event("check", "raised", "none")
       ELSE /\ pending' = Arm(Fire(pending, "check"), "swap")
            /\ ev' = Event("check", "", "swap")
            /\ UNCHANGED aborted
    /\ UNCHANGED <<ctl_vars, nz_vars, store_vars, res_vars, window_id, current_url, refresh_timer, background_browser,
                   background_window, background_load_progress, page, closed,
                   bg_deleted, loads, nfinished, early, reached100, failed,
                   nswaps>>

\* the guard of _perform_smooth_swap: not self.background_browser
SwapSkipped(browser) == browser = None

\* _perform_smooth_swap, fired 1000 ms after _check_and_perform_swap
PerformSmoothSwap ==
    /\ ~aborted /\ pending["swap"] > 0
    /\ IF SwapSkipped(background_browser)
       THEN /\ pending' = Fire(pending, "swap")
            /\ ev' = Event("swap", "skipped", "none")
            /\ UNCHANGED <<page, nswaps>>
       ELSE IF bg_deleted
       THEN \* background_browser.page() raises inside the try block
            /\ pending' = Arm(Fire(pending, "swap"), "cleanup")
            /\ ev' = Event("swap", "error", "cleanup")
            /\ UNCHANGED <<page, nswaps>>
       ELSE /\ page' = background_browser
            /\ nswaps' = Capped(nswaps + 1)
            /\ pending' = Arm(Fire(pending, "swap"), "cleanup")
            /\ ev' = Event("swap", "done", "cleanup")
    /\ UNCHANGED <<ctl_vars, nz_vars, store_vars, res_vars, window_id, current_url, refresh_timer, background_browser,
                   background_window, background_load_progress, closed,
                   bg_deleted, aborted, loads, nfinished, early, reached100,
                   failed>>

CleanupBrowser_kept(ref) == ref
\* the reference _cleanup_preloader leaves in background_browser
CleanupBrowser(ref) == None

\* _cleanup_preloader, fired 50 ms after the swap
CleanupPreloader ==
    /\ ~aborted /\ pending["cleanup"] > 0
    /\ pending' = Fire(pending, "cleanup")
    /\ background_window' = None
    /\ background_browser' = CleanupBrowser(background_browser)
    /\ bg_deleted' = FALSE
    /\ surfaces' = DisposePrevious(surfaces, background_window)
    /\ ev' = Event("cleanup", "", "none")
    /\ UNCHANGED <<ctl_vars, nz_vars, store_vars, timers, replaced, window_id, current_url, refresh_timer,
                   background_load_progress, page, closed, aborted, loads,
                   nfinished, early, reached100, failed, nswaps>>

\* closeEvent (window.close() of close_all_windows, or the window manager)
CloseEvent ==
    /\ ~aborted /\ ~closed /\ ev[1] # "init"
    /\ refresh_timer' = IF refresh_timer = "None" THEN "None" ELSE "stopped"
    /\ timers' = StopTimer(refresh_timer, timers)
    /\ bg_deleted' = (background_browser # None)
    /\ surfaces' = DisposePrevious(surfaces, background_window)
    /\ closed' = TRUE
    /\ ev' = Event("close", "", "none")
    /\ UNCHANGED <<ctl_vars, nz_vars, store_vars, replaced, window_id, current_url, background_browser,
                   background_window, background_load_progress, page, pending,
                   aborted, loads, nfinished, early, reached100, failed,
                   nswaps>>

NextEngine ==
    \/ \E url \in Urls, wid \in WindowIds : LoadUrl(url, wid)
    \/ StartBackgroundLoad
    \/ \E p \in ProgressValues : OnBackgroundLoadProgress(p)
    \/ \E ok \in BOOLEAN : OnBackgroundLoadFinished(ok)
    \/ RecheckTimeout
    \/ CheckAndPerformSwap
    \/ PerformSmoothSwap
    \/ CleanupPreloader
    \/ CloseEvent


\* ======================================================= geometry normaliser
Frac(n, d) == <<n, d>>            \* the float n / d
Sgn(v) == IF v > 0 THEN 1 ELSE IF v < 0 THEN -1 ELSE 0
Abs(v) == IF v < 0 THEN -v ELSE v
RECURSIVE Gcd(_, _)
Gcd(a, b) == IF b = 0 THEN a ELSE Gcd(b, a % b)
RECURSIVE IsPow2(_)
IsPow2(d) == IF d = 1 THEN TRUE ELSE IF d % 2 = 1 THEN FALSE ELSE IsPow2(d \div 2)
\* n / d is a binary fraction: the double holds it exactly
ExactFloat(f) == IsPow2(f[2] \div Gcd(Abs(f[1]), f[2]))
\* int(): truncation towards zero of a / b, b > 0
Trunc(a, b) == IF a >= 0 THEN a \div b ELSE -((-a) \div b)

\* int(f * size), lines 432-435.  f * size is rounded to a double: when the
\* real product is an integer v and f is not a binary fraction, the double
\* is v or the next double towards zero (0.7 * 1080 = 755.9999999999999),
\* and int() then yields v - Sgn(v); err in {0, 1} selects between the two.
Denormalize(f, size, err) ==
    LET p == f[1] * size IN
    IF p % f[2] = 0
    THEN LET v == p \div f[2] IN
         IF ExactFloat(f) \/ v = 0 THEN v ELSE v - Sgn(v) * err
    ELSE Trunc(p, f[2])

DenormOutcomes(f, size) == {Denormalize(f, size, e) : e \in {0, 1}}

\* the pixel rectangles int(geo[..] * screen ..) can produce for one slot
RectOutcomes(geo, screen) ==
    {<<x, y, w, h>> : x \in DenormOutcomes(geo.x, screen[1]),
                      y \in DenormOutcomes(geo.y, screen[2]),
                      w \in DenormOutcomes(geo.width, screen[1]),
                      h \in DenormOutcomes(geo.height, screen[2])}


\* a < b for floats n / d with d > 0
FracLess(a, b) == a[1] * b[2] < b[1] * a[2]
FracMin(a, b) == IF FracLess(b, a) THEN b ELSE a
FracMax(a, b) == IF FracLess(a, b) THEN b ELSE a

ClampSize_unit(f) == FracMax(Frac(1, 20), FracMin(Frac(1, 1), f))
\* max(0.05, min(2.0, normalized_width)), lines 239-240
ClampSize(f) == FracMax(Frac(1, 20), FracMin(Frac(2, 1), f))

\* the geometry a save stores for the pixel rectangle rect, lines 228-241
NormalizeRect_clampxy(rect, screen) ==
    [x |-> FracMax(Frac(0, 1), FracMin(Frac(1, 1), Frac(rect[1], screen[1]))),
     y |-> FracMax(Frac(0, 1), FracMin(Frac(1, 1), Frac(rect[2], screen[2]))),
     width |-> ClampSize(Frac(rect[3], screen[1])),
     height |-> ClampSize(Frac(rect[4], screen[2]))]
NormalizeRect(rect, screen) ==
    [x |-> Frac(rect[1], screen[1]),
     y |-> Frac(rect[2], screen[2]),
     width |-> ClampSize(Frac(rect[3], screen[1])),
     height |-> ClampSize(Frac(rect[4], screen[2]))]

\* ================================================================ controller
Geo(x, y, w, h) == [x |-> x, y |-> y, width |-> w, height |-> h]
Zero == Frac(0, 1)
One == Frac(1, 1)
Half == Frac(1, 2)

\* config/windows.json
WindowConfigs == <<"powerbi_report", "google_search", "sharepoint_document">>

\* config/layouts.json: the layouts and the order of the keys in the file
LayoutsFile ==
    [n \in {"default", "columns"} |->
       IF n = "default"
       THEN [description |-> "d", slots |->
             <<[id |-> "main", geometry |-> Geo(Zero, Zero, Frac(6, 10), Frac(7, 10))],
               [id |-> "bottom", geometry |-> Geo(Zero, Frac(7, 10), One, Frac(3, 10))]>>]
       ELSE [description |-> "c", slots |->
             <<[id |-> "left", geometry |-> Geo(Zero, Zero, Half, One)],
               [id |-> "right", geometry |-> Geo(Half, Zero, Half, One)]>>]]
LayoutsFileKeys == <<"default", "columns">>

\* config/views.json
ViewsFile ==
    [v \in {"dashboard", "monitoring"} |->
       IF v = "dashboard"
       THEN <<[id |-> "powerbi_report",
               position |-> Geo(Zero, Zero, Frac(6, 10), Frac(7, 10))],
              [id |-> "sharepoint_document",
               position |-> Geo(Zero, Frac(7, 10), One, Frac(3, 10))]>>
       ELSE <<[id |-> "pi_vision", position |-> Geo(Zero, Zero, Half, One)],
              [id |-> "google_search", position |-> Geo(Zero, Zero, One, One)]>>]

Range(seq) == {seq[i] : i \in 1..Len(seq)}
Values(dict) == {dict[k] : k \in DOMAIN dict}
SlotIds(slots) == {slots[i].id : i \in 1..Len(slots)}

\* ViewManager._create_default_views
DefaultViews ==
    [v \in {"dashboard", "monitoring", "overview"} |->
       IF v = "dashboard"
       THEN <<[id |-> "powerbi_report",
               position |-> Geo(Zero, Zero, Frac(6, 10), Frac(7, 10))],
              [id |-> "sharepoint_document",
               position |-> Geo(Zero, Frac(7, 10), One, Frac(3, 10))]>>
       ELSE IF v = "monitoring"
       THEN <<[id |-> "google_search", position |-> Geo(Zero, Zero, One, One)]>>
       ELSE <<[id |-> "powerbi_report",
               position |-> Geo(Half, Zero, Half, Frac(6, 10))],
              [id |-> "google_search",
               position |-> Geo(Zero, Zero, Half, Frac(6, 10))],
              [id |-> "sharepoint_document",
               position |-> Geo(Zero, Frac(6, 10), One, Frac(4, 10))]>>]

\* a store file: "ok" holds the JSON of data, "malformed" does not parse
\* (data being the records its text still holds), "missing" does not exist
File(state, data, keys) == [state |-> state, data |-> data, keys |-> keys]
NoRecords == <<>>
WriteOutcomes == {"ok", "open_failed", "dump_failed"}

WriteFile_stale(file, data, keys, outcome) ==
    IF outcome = "dump_failed" THEN File("malformed", NoRecords, <<>>) ELSE file
\* with open(path, 'w') as f: json.dump(data, f): open() truncates the
\* file, so a failure inside json.dump leaves a file that does not parse
WriteFile(file, data, keys, outcome) ==
    IF outcome = "ok" THEN File("ok", data, keys)
    ELSE IF outcome = "open_failed" THEN file
    ELSE File("malformed", NoRecords, <<>>)

\* ViewManager._load_views, with _create_default_views and _save_views
LoadViews(file, outcome) ==
    IF file.state = "ok"
    THEN [views |-> file.data, file |-> file]
    ELSE [views |-> DefaultViews,
          file |-> WriteFile(file, DefaultViews, <<>>, outcome)]

\* ApplicationController._load_configs: either file failing to load
\* empties both
LoadConfigs(file) ==
    IF file.state = "ok"
    THEN [window_configs |-> WindowConfigs, layouts_data |-> file.data,
          layouts_keys |-> file.keys]
    ELSE [window_configs |-> <<>>, layouts_data |-> NoRecords,
          layouts_keys |-> <<>>]

\* what the last save operation showed and did: the save dialog opened,
\* the overwrite question was asked, the message box shown at the end, the
\* outcome of the file write
Dialogs(dialog, asked, msg, wrote) ==
    [dialog |-> dialog, asked |-> asked, msg |-> msg, wrote |-> wrote]
NoDialogs == Dialogs(FALSE, FALSE, "none", "none")

\* ApplicationController.__init__, ViewManager.__init__ and run(), started
\* on the layouts file lf and the views file vf
Start(lf, vf, outcome) ==
    /\ screen_geometry \in ScreenSizes
    /\ windows = <<>> /\ window_order = <<>> /\ open_panes = <<>>
    /\ window_configs = LoadConfigs(lf).window_configs
    /\ layouts_data = LoadConfigs(lf).layouts_data
    /\ layouts_keys = LoadConfigs(lf).layouts_keys
    /\ is_edit_mode = FALSE
    /\ views = LoadViews(vf, outcome).views
    /\ current_view = ""
    /\ is_expanded = FALSE /\ menu_shown = FALSE
    /\ dlg_open = FALSE /\ selected_layout_name = ""
    /\ current_assignments = <<>>
    /\ raised = FALSE
    /\ op = <<"run">>
    /\ layouts_file0 = lf /\ layouts_file = lf
    /\ views_file0 = vf /\ views_file = LoadViews(vf, outcome).file
    /\ ui = NoDialogs
    /\ nsaves = 0 /\ nedits = 0
    /\ saved_px = <<>>

InitController ==
    Start(File("ok", LayoutsFile, LayoutsFileKeys), File("ok", ViewsFile, <<>>), "ok")

\* BrowserWindow.set_edit_mode on every registered window
Broadcast(ws, enabled) == [w \in DOMAIN ws |-> [ws[w] EXCEPT !.overlay = enabled]]

ToggleEditModeOp_on(ws) ==
    [edit |-> TRUE, windows |-> Broadcast(ws, TRUE), expanded |-> ~is_expanded]
\* toggle_edit_mode as called from a handler: <<flag, windows, menu>>
ToggleEditModeOp(ws) ==
    [edit |-> ~is_edit_mode,
     windows |-> Broadcast(ws, ~is_edit_mode),
     expanded |-> ~is_expanded]

\* ViewManager.apply_view_to_controller: the windows created for the
\* definitions defs, px[i] being the pixel rectangle computed for defs[i]
Configured_any(wid) == TRUE
\* if window_id in window_map, the map being read from config/windows.json
Configured(wid) == wid \in Range(WindowConfigs)

\* QWebEngineView.zoomFactor() of a new window, in percent
DefaultZoom == 100
\* hasattr(window, 'set_zoom_level'): BrowserWindow defines no such method
HasSetZoomLevel == FALSE
\* the zoom of the window created for the definition def, lines 226-231
ZoomAfterApply(def) ==
    IF "zoom" \in DOMAIN def /\ HasSetZoomLevel THEN def.zoom ELSE DefaultZoom

RECURSIVE CreateWindows(_, _, _, _)
CreateWindows(ws, defs, px, i) ==
    IF i > Len(defs) THEN ws
    ELSE IF Configured(defs[i].id)
    THEN CreateWindows(
           [w \in DOMAIN ws \cup {defs[i].id} |->
              IF w = defs[i].id
              THEN [visible |-> TRUE, geo |-> px[i], overlay |-> FALSE,
                    zoom |-> ZoomAfterApply(defs[i])]
              ELSE ws[w]],
           defs, px, i + 1)
    ELSE CreateWindows(ws, defs, px, i + 1)

PixelChoices(rects, screen) ==
    {px \in [1..Len(rects) -> UNION {RectOutcomes(rects[i], screen) : i \in 1..Len(rects)}] :
        \A i \in 1..Len(rects) : px[i] \in RectOutcomes(rects[i], screen)}

\* the key order of self._windows after the loop of apply_view_to_controller
RECURSIVE CreateOrder(_, _, _)
CreateOrder(order, defs, i) ==
    IF i > Len(defs) THEN order
    ELSE IF Configured(defs[i].id) /\ defs[i].id \notin Range(order)
    THEN CreateOrder(Append(order, defs[i].id), defs, i + 1)
    ELSE CreateOrder(order, defs, i + 1)

\* a BrowserWindow object loses its last Python reference: PyQt deletes the
\* parentless window with its wrapper
DropReference(panes, wid) ==
    IF wid \in Range(panes)
    THEN LET i == CHOOSE i \in 1..Len(panes) :
                    panes[i] = wid /\ \A j \in 1..(i - 1) : panes[j] # wid
         IN SubSeq(panes, 1, i - 1) \o SubSeq(panes, i + 1, Len(panes))
    ELSE panes

Overwrite_kept(panes, wid) == panes
\* self._windows[window_id] = window for an id that is registered already:
\* the window registered before is dropped
Overwrite(panes, wid) == DropReference(panes, wid)

\* close_all_windows: window.close() on every registered window, then
\* self._windows.clear()
RECURSIVE CloseAllWindows(_, _)
CloseAllWindows(panes, order) ==
    IF order = <<>> THEN panes
    ELSE CloseAllWindows(DropReference(panes, Head(order)), Tail(order))

\* the BrowserWindow objects after the loop of apply_view_to_controller,
\* registered being the keys of self._windows so far
RECURSIVE CreatePanes(_, _, _, _)
CreatePanes(panes, registered, defs, i) ==
    IF i > Len(defs) THEN panes
    ELSE IF Configured(defs[i].id)
    THEN CreatePanes(
           IF defs[i].id \in registered
           THEN Overwrite(Append(panes, defs[i].id), defs[i].id)
           ELSE Append(panes, defs[i].id),
           registered \cup {defs[i].id}, defs, i + 1)
    ELSE CreatePanes(panes, registered, defs, i + 1)

\* ApplicationController.switch_view
SwitchViewOp(view_id, px) ==
    IF view_id \in DOMAIN views
    THEN [current |-> view_id,
          windows |-> CreateWindows(<<>>, views[view_id], px, 1),
          order |-> CreateOrder(<<>>, views[view_id], 1),
          panes |-> CreatePanes(CloseAllWindows(open_panes, window_order), {},
                                views[view_id], 1)]
    ELSE [current |-> current_view, windows |-> windows, order |-> window_order,
          panes |-> open_panes]

ViewRects(view_id) ==
    IF view_id \in DOMAIN views
    THEN [i \in 1..Len(views[view_id]) |-> views[view_id][i].position]
    ELSE <<>>

\* ViewSelectorBar._on_view_selected -> ApplicationController._on_view_selected
SelectView(view_id) ==
    /\ ~raised /\ ~menu_shown
    /\ \E px \in PixelChoices(ViewRects(view_id), screen_geometry) :
         LET r == SwitchViewOp(view_id, px) IN
         /\ current_view' = r.current
         /\ windows' = r.windows
         /\ window_order' = r.order
         /\ open_panes' = r.panes
    /\ menu_shown' = TRUE
    /\ op' = <<"switch_view", view_id>>
    /\ UNCHANGED <<engine_vars, nz_vars, file_vars, save_vars, screen_geometry, window_configs, layouts_data, layouts_keys,
                   is_edit_mode, views, is_expanded, dlg_open,
                   selected_layout_name, current_assignments, raised>>

\* FloatingActionMenu.show_view_menu -> view_switch_requested -> switch_view
ViewMenuSwitch(view_id) ==
    /\ ~raised /\ menu_shown /\ is_expanded /\ ~dlg_open /\ ~is_edit_mode
    /\ view_id # current_view
    /\ \E px \in PixelChoices(ViewRects(view_id), screen_geometry) :
         LET r == SwitchViewOp(view_id, px) IN
         /\ current_view' = r.current
         /\ windows' = r.windows
         /\ window_order' = r.order
         /\ open_panes' = r.panes
    /\ op' = <<"switch_view", view_id>>
    /\ UNCHANGED <<engine_vars, nz_vars, file_vars, save_vars, screen_geometry, window_configs, layouts_data, layouts_keys,
                   is_edit_mode, views, is_expanded, menu_shown, dlg_open,
                   selected_layout_name, current_assignments, raised>>

\* main_button.clicked -> FloatingActionMenu.toggle_menu
MenuClick ==
    /\ ~raised /\ menu_shown /\ ~dlg_open
    /\ is_expanded' = ~is_expanded
    /\ op' = <<"toggle_menu">>
    /\ UNCHANGED <<engine_vars, open_panes, nz_vars, store_vars, screen_geometry, windows, window_configs, layouts_data, layouts_keys,
                   is_edit_mode, views, current_view, menu_shown, dlg_open,
                   selected_layout_name, current_assignments, raised>>

\* menu action: ApplicationController.toggle_edit_mode
ToggleEditMode ==
    /\ ~raised /\ menu_shown /\ is_expanded /\ ~dlg_open
    /\ LET r == ToggleEditModeOp(windows) IN
         /\ is_edit_mode' = r.edit
         /\ windows' = r.windows
         /\ is_expanded' = r.expanded
    /\ op' = <<"toggle_edit_mode">>
    /\ UNCHANGED <<engine_vars, open_panes, nz_vars, store_vars, screen_geometry, window_configs, layouts_data, layouts_keys, views,
                   current_view, menu_shown, dlg_open, selected_layout_name,
                   current_assignments, raised>>

\* menu action: ApplicationController.open_screen_manager; load_data selects
\* the first layout of the dict and exec() opens the modal dialog
OpenScreenManager ==
    /\ ~raised /\ menu_shown /\ is_expanded /\ ~dlg_open
    /\ is_expanded' = ~is_expanded
    /\ IF Len(layouts_keys) > 0
       THEN /\ selected_layout_name' = layouts_keys[1]
            /\ current_assignments' = <<>>
       ELSE UNCHANGED <<selected_layout_name, current_assignments>>
    /\ dlg_open' = TRUE
    /\ op' = <<"open_screen_manager">>
    /\ UNCHANGED <<engine_vars, open_panes, nz_vars, store_vars, screen_geometry, windows, window_configs, layouts_data,
                   layouts_keys, is_edit_mode, views, current_view,
                   menu_shown, raised>>

OnLayoutSelected_kept(layout_name) ==
    /\ ~raised /\ dlg_open /\ layout_name \in DOMAIN layouts_data
    /\ selected_layout_name' = layout_name
    /\ op' = <<"on_layout_selected", layout_name>>
    /\ UNCHANGED <<engine_vars, open_panes, nz_vars, store_vars, screen_geometry, windows, window_configs, layouts_data,
                   layouts_keys, is_edit_mode, views, current_view,
                   is_expanded, menu_shown, dlg_open, raised,
                   current_assignments>>
\* LayoutPreviewWidget.selected -> ScreenManagerDialog.on_layout_selected
OnLayoutSelected(layout_name) ==
    /\ ~raised /\ dlg_open /\ layout_name \in DOMAIN layouts_data
    /\ selected_layout_name' = layout_name
    /\ current_assignments' = <<>>
    /\ op' = <<"on_layout_selected", layout_name>>
    /\ UNCHANGED <<engine_vars, open_panes, nz_vars, store_vars, screen_geometry, windows, window_configs, layouts_data,
                   layouts_keys, is_edit_mode, views, current_view,
                   is_expanded, menu_shown, dlg_open, raised>>

\* the drop zones on_layout_selected created: the slots of the selection
DropZones ==
    IF selected_layout_name \in DOMAIN layouts_data
    THEN SlotIds(layouts_data[selected_layout_name].slots)
    ELSE {}

\* self._current_assignments[slot_id] = page_id
Assign(assignments, slot_id, page_id) ==
    [k \in DOMAIN assignments \cup {slot_id} |->
       IF k = slot_id THEN page_id ELSE assignments[k]]

\* DropZoneWidget.pageDropped -> ScreenManagerDialog.on_page_assigned
OnPageAssigned(slot_id, page_id) ==
    /\ ~raised /\ dlg_open
    /\ slot_id \in DropZones /\ page_id \in Range(window_configs)
    /\ current_assignments' = Assign(current_assignments, slot_id, page_id)
    /\ op' = <<"on_page_assigned", slot_id>>
    /\ UNCHANGED <<engine_vars, open_panes, nz_vars, store_vars, screen_geometry, windows, window_configs, layouts_data,
                   layouts_keys, is_edit_mode, views, current_view,
                   is_expanded, menu_shown, dlg_open, selected_layout_name,
                   raised>>

\* cancel_button.clicked -> reject
OnReject ==
    /\ ~raised /\ dlg_open
    /\ dlg_open' = FALSE
    /\ op' = <<"reject">>
    /\ UNCHANGED <<engine_vars, open_panes, nz_vars, store_vars, screen_geometry, windows, window_configs, layouts_data,
                   layouts_keys, is_edit_mode, views, current_view,
                   is_expanded, menu_shown, selected_layout_name,
                   current_assignments, raised>>

\* ------------------------------------------------------------ apply_layout
\* assignments.get(slot_id); "" stands for None
GetAssignment(assignments, slot_id) ==
    IF slot_id \in DOMAIN assignments THEN assignments[slot_id] ELSE ""

SlotApplies_unchecked(page_id, ws) == page_id # ""
\* if page_id and page_id in self._windows
SlotApplies(page_id, ws) == page_id # "" /\ page_id \in DOMAIN ws

\* for window in self._windows.values(): window.hide()
HideAll(ws) == [w \in DOMAIN ws |-> [ws[w] EXCEPT !.visible = FALSE]]

ShowWindow_exclusive(ws, page_id, rect) ==
    [w \in DOMAIN ws |->
       IF w = page_id THEN [ws[w] EXCEPT !.geo = rect, !.visible = TRUE]
       ELSE [ws[w] EXCEPT !.visible = FALSE]]
\* window_to_configure.set_geometry(...); window_to_configure.show()
ShowWindow(ws, page_id, rect) ==
    [ws EXCEPT ![page_id] = [@ EXCEPT !.geo = rect, !.visible = TRUE]]

\* the loop over layout_info["slots"], px[i] being the pixel rectangle
\* computed for slots[i]; self._windows[page_id] raises KeyError for an
\* id that is not registered
RECURSIVE ApplySlots(_, _, _, _, _)
ApplySlots(ws, slots, assignments, px, i) ==
    IF i > Len(slots) THEN [windows |-> ws, raised |-> FALSE]
    ELSE LET page_id == GetAssignment(assignments, slots[i].id) IN
         IF SlotApplies(page_id, ws)
         THEN IF page_id \in DOMAIN ws
              THEN ApplySlots(ShowWindow(ws, page_id, px[i]), slots,
                              assignments, px, i + 1)
              ELSE [windows |-> ws, raised |-> TRUE]
         ELSE ApplySlots(ws, slots, assignments, px, i + 1)

StaysShown_inverted(page_id, assigned_pages) == page_id \notin assigned_pages
\* the final loop hides a window if page_id not in assigned_pages
StaysShown(page_id, assigned_pages) == page_id \in assigned_pages

HideUnassigned(ws, assigned_pages) ==
    [w \in DOMAIN ws |->
       IF StaysShown(w, assigned_pages) THEN ws[w]
       ELSE [ws[w] EXCEPT !.visible = FALSE]]

\* apply_layout from line 414 on, for the slot list of the layout
ApplyLayoutSlots(ws, slots, assignments, px) ==
    LET r == ApplySlots(HideAll(ws), slots, assignments, px, 1) IN
    IF r.raised THEN r
    ELSE [windows |-> HideUnassigned(r.windows, Values(assignments)),
          raised |-> FALSE]

\* apply_layout(layout_name, assignments): the controller state it leaves
ApplyLayoutOp(layout_name, assignments, px) ==
    LET t == IF is_edit_mode THEN ToggleEditModeOp(windows)
             ELSE [edit |-> is_edit_mode, windows |-> windows,
                   expanded |-> is_expanded]
    IN IF layout_name \notin DOMAIN layouts_data
       THEN [edit |-> t.edit, windows |-> t.windows, expanded |-> t.expanded,
             raised |-> FALSE]
       ELSE LET r == ApplyLayoutSlots(t.windows, layouts_data[layout_name].slots,
                                      assignments, px)
            IN [edit |-> t.edit, windows |-> r.windows,
                expanded |-> t.expanded, raised |-> r.raised]

SlotRects(layout_name) ==
    IF layout_name \in DOMAIN layouts_data
    THEN [i \in 1..Len(layouts_data[layout_name].slots) |->
            layouts_data[layout_name].slots[i].geometry]
    ELSE <<>>

\* apply_button.clicked -> on_accept -> layoutApplied -> apply_layout
OnAccept(px) ==
    /\ ~raised /\ dlg_open
    /\ IF selected_layout_name # ""
       THEN LET r == ApplyLayoutOp(selected_layout_name, current_assignments, px)
            IN /\ is_edit_mode' = r.edit
               /\ windows' = r.windows
               /\ is_expanded' = r.expanded
               /\ raised' = r.raised
               /\ op' = <<"apply_layout", selected_layout_name>>
       ELSE /\ op' = <<"accept">>
            /\ UNCHANGED <<is_edit_mode, windows, is_expanded, raised>>
    /\ dlg_open' = FALSE
    /\ UNCHANGED <<engine_vars, open_panes, nz_vars, store_vars, screen_geometry, window_configs, layouts_data,
                   layouts_keys, views, current_view, menu_shown,
                   selected_layout_name, current_assignments>>

\* ------------------------------------------------------- edit overlay, saves
DragTargets == {<<-64, 1100>>}
ResizeTargets == {<<3840, 100>>}

\* EditOverlay.mouseMoveEvent while dragging: parent.move(parent.pos() + delta)
DragWindow(w, pos) ==
    /\ ~raised /\ ~dlg_open /\ nedits < MaxEdits
    /\ w \in DOMAIN windows /\ windows[w].visible /\ windows[w].overlay
    /\ windows' = [windows EXCEPT ![w].geo =
                      <<pos[1], pos[2], windows[w].geo[3], windows[w].geo[4]>>]
    /\ nedits' = nedits + 1
    /\ op' = <<"drag", w>>
    /\ UNCHANGED <<engine_vars, open_panes, nz_vars, window_order, file_vars, ui, nsaves,
                   saved_px, screen_geometry, window_configs, layouts_data,
                   layouts_keys, is_edit_mode, views, current_view,
                   is_expanded, menu_shown, dlg_open, selected_layout_name,
                   current_assignments, raised>>

\* the zoom slider of the edit overlay: EditOverlay._on_zoom_changed
SetZoom(w, value) ==
    /\ ~raised /\ ~dlg_open
    /\ w \in DOMAIN windows /\ windows[w].visible /\ windows[w].overlay
    /\ windows' = [windows EXCEPT ![w].zoom = value]
    /\ op' = <<"zoom", w>>
    /\ UNCHANGED <<engine_vars, open_panes, nz_vars, store_vars, screen_geometry,
                   window_configs, layouts_data, layouts_keys, is_edit_mode,
                   views, current_view, is_expanded, menu_shown, dlg_open,
                   selected_layout_name, current_assignments, raised>>

Max(a, b) == IF a > b THEN a ELSE b

\* EditOverlay.mouseMoveEvent while resizing:
\* parent.resize(max(200, new_width), max(200, new_height))
ResizeWindow(w, size) ==
    /\ ~raised /\ ~dlg_open /\ nedits < MaxEdits
    /\ w \in DOMAIN windows /\ windows[w].visible /\ windows[w].overlay
    /\ windows' = [windows EXCEPT ![w].geo =
                      <<windows[w].geo[1], windows[w].geo[2],
                        Max(200, size[1]), Max(200, size[2])>>]
    /\ nedits' = nedits + 1
    /\ op' = <<"resize", w>>
    /\ UNCHANGED <<engine_vars, open_panes, nz_vars, window_order, file_vars, ui, nsaves,
                   saved_px, screen_geometry, window_configs, layouts_data,
                   layouts_keys, is_edit_mode, views, current_view,
                   is_expanded, menu_shown, dlg_open, selected_layout_name,
                   current_assignments, raised>>

\* {window_id: window for ... in self._windows.items() if window.isVisible()},
\* in the key order of self._windows
VisibleWindows == SelectSeq(window_order, LAMBDA w : windows[w].visible)

Upper == "ABCDEFGHIJKLMNOPQRSTUVWXYZ"
Lower == "abcdefghijklmnopqrstuvwxyz"
IdChar_verbatim(c) == c
\* str.lower() and str.replace(" ", "_") on one character
IdChar(c) ==
    IF c = " " THEN "_"
    ELSE IF \E i \in 1..26 : SubSeq(Upper, i, i) = c
    THEN LET i == CHOOSE i \in 1..26 : SubSeq(Upper, i, i) = c
         IN SubSeq(Lower, i, i)
    ELSE c
\* view_id = save_data["name"].lower().replace(" ", "_")
RECURSIVE ViewIdOf(_)
ViewIdOf(name) ==
    IF name = "" THEN ""
    ELSE IdChar(SubSeq(name, 1, 1)) \o ViewIdOf(SubSeq(name, 2, Len(name)))

Put_dropped(d, k, v) == d
\* d[k] = v on a dict
Put(d, k, v) == [x \in DOMAIN d \cup {k} |-> IF x = k THEN v ELSE d[x]]
\* the key order of a dict after d[k] = v
PutKey(keys, k) == IF k \in Range(keys) THEN keys ELSE Append(keys, k)

SlotsOf_transposed(vis) ==
    [i \in 1..Len(vis) |->
       [id |-> "Slot for " \o vis[i],
        geometry |-> NormalizeRect(windows[vis[i]].geo,
                                   <<screen_geometry[2], screen_geometry[1]>>)]]
\* the slots a layout save captures from the visible windows
SlotsOf(vis) ==
    [i \in 1..Len(vis) |->
       [id |-> "Slot for " \o vis[i],
        geometry |-> NormalizeRect(windows[vis[i]].geo, screen_geometry)]]

WindowDefsOf_all(vis) ==
    [i \in 1..Len(window_order) |->
       [id |-> window_order[i],
        position |-> NormalizeRect(windows[window_order[i]].geo, screen_geometry)]]
\* the window definitions a view save captures from the visible windows
WindowDefsOf(vis) ==
    [i \in 1..Len(vis) |->
       [id |-> vis[i],
        position |-> NormalizeRect(windows[vis[i]].geo, screen_geometry)]]

\* layout_description or f"Custom layout: {layout_name}"
DescriptionOf(text, name) == IF text = "" THEN "Custom layout: " \o name ELSE text

SaveNames == {"Dashboard", "default"}
SaveTypes == {"view", "layout"}
Answers == {"yes", "no"}
Cancel == ""                      \* the save dialog was rejected

NothingToSave_never(vis) == FALSE
\* if not visible_windows
NothingToSave(vis) == vis = <<>>

Declined_never(exists, answer) == FALSE
\* the overwrite question is asked for an existing record and any reply
\* but Yes returns
Declined(exists, answer) == exists /\ answer # "yes"

Wrote(outcome) == IF outcome = "ok" THEN "ok" ELSE "failed"

\* the layout save from the name check on: lines 200-256 and 342-399
SaveLayoutOp(vis, name, text, answer, outcome) ==
    LET exists == name \in DOMAIN layouts_data IN
    IF Declined(exists, answer)
    THEN [stored |-> FALSE, data |-> layouts_data, keys |-> layouts_keys,
          file |-> layouts_file,
          ui |-> [dialog |-> TRUE, asked |-> TRUE, msg |-> "none", wrote |-> "none"]]
    ELSE LET new_layout == [description |-> DescriptionOf(text, name),
                            slots |-> SlotsOf(vis)]
             data == Put(layouts_data, name, new_layout)
             keys == PutKey(layouts_keys, name)
         IN [stored |-> TRUE, data |-> data, keys |-> keys,
             file |-> WriteFile(layouts_file, data, keys, outcome),
             ui |-> [dialog |-> TRUE, asked |-> exists,
                     msg |-> IF outcome = "ok" THEN "saved" ELSE "save_error",
                     wrote |-> Wrote(outcome)]]

\* ViewManager.create_view(...) or ViewManager.update_view(...): both store
\* the record, call _save_views and return True
CreateOrUpdateView(view_id, defs, outcome) ==
    LET data == Put(views, view_id, defs) IN
    [success |-> TRUE, data |-> data,
     file |-> WriteFile(views_file, data, <<>>, outcome)]

\* ApplicationController._save_as_view
SaveViewOp(vis, name, answer, outcome) ==
    LET view_id == ViewIdOf(name)
        exists == view_id \in DOMAIN views
    IN IF Declined(exists, answer)
       THEN [stored |-> FALSE, data |-> views, file |-> views_file,
             ui |-> [dialog |-> TRUE, asked |-> TRUE, msg |-> "none",
                     wrote |-> "none"]]
       ELSE LET r == CreateOrUpdateView(view_id, WindowDefsOf(vis), outcome)
            IN [stored |-> TRUE, data |-> r.data, file |-> r.file,
                ui |-> [dialog |-> TRUE, asked |-> exists,
                        msg |-> IF r.success THEN "saved" ELSE "save_error",
                        wrote |-> Wrote(outcome)]]

\* the pixel geometry of the visible windows, kept for the layout name
PixelsOf(vis) == [w \in Range(vis) |-> windows[w].geo]
\* the key of saved_px for a saved view
ViewKey(view_id) == "view " \o view_id

\* ApplicationController.save_current_layout; name = Cancel when the save
\* dialog is rejected
SaveCurrentLayout(name, answer, outcome) ==
    /\ ~raised /\ ~dlg_open /\ menu_shown /\ nsaves < MaxSaves
    /\ is_expanded' = ~is_expanded
    /\ op' = <<"save_current_layout", name>>
    /\ IF NothingToSave(VisibleWindows)
       THEN /\ ui' = [dialog |-> FALSE, asked |-> FALSE, msg |-> "no_windows",
                      wrote |-> "none"]
            /\ UNCHANGED <<layouts_data, layouts_keys, layouts_file, nsaves, saved_px>>
       ELSE IF name = Cancel
       THEN /\ ui' = [dialog |-> TRUE, asked |-> FALSE, msg |-> "none",
                      wrote |-> "none"]
            /\ UNCHANGED <<layouts_data, layouts_keys, layouts_file, nsaves, saved_px>>
       ELSE LET r == SaveLayoutOp(VisibleWindows, name, "", answer, outcome) IN
            /\ layouts_data' = r.data /\ layouts_keys' = r.keys
            /\ layouts_file' = r.file /\ ui' = r.ui
            /\ nsaves' = IF r.stored THEN nsaves + 1 ELSE nsaves
            /\ saved_px' = IF r.stored THEN Put(saved_px, name, PixelsOf(VisibleWindows))
                           ELSE saved_px
    /\ UNCHANGED <<engine_vars, open_panes, nz_vars, window_order, views_file, layouts_file0,
                   views_file0, nedits, screen_geometry, windows, window_configs,
                   is_edit_mode, views, current_view, menu_shown, dlg_open,
                   selected_layout_name, current_assignments, raised>>

\* menu action (edit mode): ApplicationController.save_current_view
SaveCurrentView(type, name, answer, outcome) ==
    /\ ~raised /\ ~dlg_open /\ menu_shown /\ is_expanded /\ is_edit_mode
    /\ nsaves < MaxSaves
    /\ is_expanded' = ~is_expanded
    /\ op' = <<"save_current_view", type, name>>
    /\ IF NothingToSave(VisibleWindows)
       THEN /\ ui' = [dialog |-> FALSE, asked |-> FALSE, msg |-> "no_windows",
                      wrote |-> "none"]
            /\ UNCHANGED <<layouts_data, layouts_keys, layouts_file, views,
                           views_file, nsaves, saved_px>>
       ELSE IF name = Cancel
       THEN /\ ui' = [dialog |-> TRUE, asked |-> FALSE, msg |-> "none",
                      wrote |-> "none"]
            /\ UNCHANGED <<layouts_data, layouts_keys, layouts_file, views,
                           views_file, nsaves, saved_px>>
       ELSE IF type = "view"
       THEN LET r == SaveViewOp(VisibleWindows, name, answer, outcome) IN
            /\ views' = r.data /\ views_file' = r.file /\ ui' = r.ui
            /\ nsaves' = IF r.stored THEN nsaves + 1 ELSE nsaves
            /\ saved_px' = IF r.stored
                           THEN Put(saved_px, ViewKey(ViewIdOf(name)),
                                    PixelsOf(VisibleWindows))
                           ELSE saved_px
            /\ UNCHANGED <<layouts_data, layouts_keys, layouts_file>>
       ELSE LET r == SaveLayoutOp(VisibleWindows, name, "", answer, outcome) IN
            /\ layouts_data' = r.data /\ layouts_keys' = r.keys
            /\ layouts_file' = r.file /\ ui' = r.ui
            /\ nsaves' = IF r.stored THEN nsaves + 1 ELSE nsaves
            /\ saved_px' = IF r.stored THEN Put(saved_px, name, PixelsOf(VisibleWindows))
                           ELSE saved_px
            /\ UNCHANGED <<views, views_file>>
    /\ UNCHANGED <<engine_vars, open_panes, nz_vars, window_order, layouts_file0,
                   views_file0, nedits, screen_geometry, windows, window_configs,
                   is_edit_mode, current_view, menu_shown, dlg_open,
                   selected_layout_name, current_assignments, raised>>

\* ------------------------------------------- bounded inputs of the normaliser
NormScreens == {<<7, 5>>, <<40, 60>>}
NormRects ==
    {<<x, y, w, h>> : x \in -MaxCoord..MaxCoord, y \in {-MaxCoord, 0, MaxCoord},
                      w \in 0..MaxSize, h \in {0, 2, 6, MaxSize}}

InitNormIdle ==
    /\ nz_rect = <<0, 0, 0, 0>> /\ nz_screen = <<1, 1>>
    /\ nz_stored = Geo(Zero, Zero, Zero, Zero)
    /\ nz_out = <<0, 0, 0, 0>> /\ nz_pc = "idle"

Init == InitEngine /\ InitController /\ InitNormIdle
Next == NextEngine
Spec == Init /\ [][Next]_vars
\* the refresh engine with load_url called again on the window
NextReload ==
    \/ NextEngine
    \/ \E url \in Urls, wid \in WindowIds : ReloadUrl(url, wid)
SpecReload == Init /\ [][NextReload]_vars

\* the event loop delivers every pending single-shot timer and every tick of
\* the running refresh timer; nothing obliges the browser engine to report
\* progress or the end of a load. A re-check that finds the progress still
\* below 100 takes one pending re-check and arms one: the step leaves the
\* engine's variables as they are, so the re-check firing every second for
\* ever shows as a behaviour that stays in that state
SpecLive ==
    /\ Init /\ [][Next]_vars
    /\ WF_vars(StartBackgroundLoad)
    /\ WF_vars(RecheckTimeout)
    /\ WF_vars(CheckAndPerformSwap)
    /\ WF_vars(PerformSmoothSwap)
    /\ WF_vars(CleanupPreloader)

NextController ==
    \/ \E v \in DOMAIN views : SelectView(v)
    \/ \E v \in DOMAIN views : ViewMenuSwitch(v)
    \/ MenuClick
    \/ ToggleEditMode
    \/ OpenScreenManager
    \/ \E n \in DOMAIN layouts_data : OnLayoutSelected(n)
    \/ \E slot_id \in DropZones, page_id \in WindowIds :
          OnPageAssigned(slot_id, page_id)
    \/ OnReject
    \/ \E px \in PixelChoices(SlotRects(selected_layout_name), screen_geometry) :
          OnAccept(px)
NextLayout == NextController
SpecLayout == Init /\ [][NextLayout]_vars

\* ------------------------------------------- the stores, saves and start-up
BrokenLayoutsFile == File("malformed", LayoutsFile, LayoutsFileKeys)
BrokenViewsFile == File("malformed", ViewsFile, <<>>)
\* <<layouts file, views file, outcome of the write _load_views may do>>
StartCases ==
    {<<File("ok", LayoutsFile, LayoutsFileKeys), File("ok", ViewsFile, <<>>), "ok">>,
     <<BrokenLayoutsFile, File("ok", ViewsFile, <<>>), "ok">>}
    \cup {<<File("ok", LayoutsFile, LayoutsFileKeys), BrokenViewsFile, outcome>> :
            outcome \in WriteOutcomes}

InitStart ==
    /\ InitEngine /\ InitNormIdle
    /\ \E c \in StartCases : Start(c[1], c[2], c[3])

\* saving: the screen manager is only opened and closed, which applies
\* the first layout with no assignment
NextSave ==
    \/ \E v \in DOMAIN views : SelectView(v)
    \/ MenuClick
    \/ ToggleEditMode
    \/ \E name \in SaveNames \cup {Cancel}, answer \in Answers,
          outcome \in WriteOutcomes : SaveCurrentLayout(name, answer, outcome)
    \/ \E type \in SaveTypes, name \in SaveNames \cup {Cancel}, answer \in Answers,
          outcome \in WriteOutcomes : SaveCurrentView(type, name, answer, outcome)
    \/ OpenScreenManager
    \/ OnReject
    \/ \E px \in PixelChoices(SlotRects(selected_layout_name), screen_geometry) :
          OnAccept(px)
SpecSave == Init /\ [][NextSave]_vars

\* windows dragged and resized through the edit overlay, then saved under
\* either name, the overwrite question answered Yes
NextEdit ==
    \/ \E v \in DOMAIN views : SelectView(v)
    \/ MenuClick
    \/ ToggleEditMode
    \/ \E w \in WindowIds, pos \in DragTargets : DragWindow(w, pos)
    \/ \E w \in WindowIds, size \in ResizeTargets : ResizeWindow(w, size)
    \/ \E name \in SaveNames, outcome \in WriteOutcomes :
          SaveCurrentLayout(name, "yes", outcome)
    \/ \E type \in SaveTypes, name \in SaveNames, outcome \in WriteOutcomes :
          SaveCurrentView(type, name, "yes", outcome)
SpecEdit == Init /\ [][NextEdit]_vars

\* start-up on each of the start cases, followed by the menu operations
NextStart ==
    \/ \E v \in DOMAIN views : SelectView(v)
    \/ \E v \in DOMAIN views : ViewMenuSwitch(v)
    \/ MenuClick
    \/ ToggleEditMode
    \/ \E type \in SaveTypes, name \in SaveNames \cup {Cancel}, answer \in Answers,
          outcome \in WriteOutcomes : SaveCurrentView(type, name, answer, outcome)
    \/ OpenScreenManager
    \/ OnReject
    \/ \E px \in PixelChoices(SlotRects(selected_layout_name), screen_geometry) :
          OnAccept(px)
SpecStart == InitStart /\ [][NextStart]_vars

\* the windows moved with the edit overlay before a layout is saved: the
\* first window of each view
EditedWindows == {"powerbi_report", "pi_vision"}

\* saving a layout and applying it: the screen manager selects the saved
\* layout and assigns a saved slot "Slot for w" to the window w it was saved
\* from
NextApply ==
    \/ \E v \in DOMAIN views : SelectView(v)
    \/ MenuClick
    \/ ToggleEditMode
    \/ \E w \in EditedWindows, pos \in DragTargets : DragWindow(w, pos)
    \/ \E w \in EditedWindows, size \in ResizeTargets : ResizeWindow(w, size)
    \/ SaveCurrentView("layout", "Dashboard", "yes", "ok")
    \/ OpenScreenManager
    \/ \E n \in DOMAIN layouts_data \cap {"Dashboard"} : OnLayoutSelected(n)
    \/ \E page_id \in WindowIds : OnPageAssigned("Slot for " \o page_id, page_id)
    \/ \E px \in PixelChoices(SlotRects(selected_layout_name), screen_geometry) :
          OnAccept(px)
SpecApply == Init /\ [][NextApply]_vars

\* saving a view and switching to it: a layout applied with one slot
\* assigned hides the other windows before the save
NextRestore ==
    \/ \E v \in DOMAIN views : SelectView(v)
    \/ \E v \in DOMAIN views : ViewMenuSwitch(v)
    \/ MenuClick
    \/ ToggleEditMode
    \/ \E w \in EditedWindows, pos \in DragTargets : DragWindow(w, pos)
    \/ \E w \in EditedWindows, size \in ResizeTargets : ResizeWindow(w, size)
    \/ SaveCurrentView("view", "Wall 2", "yes", "ok")
    \/ OpenScreenManager
    \/ \E page_id \in EditedWindows : OnPageAssigned("main", page_id)
    \/ \E px \in PixelChoices(SlotRects(selected_layout_name), screen_geometry) :
          OnAccept(px)
SpecRestore == Init /\ [][NextRestore]_vars

\* ------------------------------------- the controller's methods called directly
ApiLayoutNames == {"default", "columns", "nope"}
\* assignment dicts for the slots of a layout: each slot unassigned or
\* assigned to a page
ApiAssignments(layout_name) ==
    LET ids == IF layout_name \in DOMAIN layouts_data
               THEN SlotIds(layouts_data[layout_name].slots) ELSE {"main"}
    IN UNION {[sub -> WindowIds] : sub \in SUBSET ids}

\* ApplicationController.toggle_edit_mode()
CallToggleEditMode ==
    /\ ~raised
    /\ LET r == ToggleEditModeOp(windows) IN
         /\ is_edit_mode' = r.edit
         /\ windows' = r.windows
         /\ is_expanded' = r.expanded
    /\ op' = <<"toggle_edit_mode">>
    /\ UNCHANGED <<engine_vars, open_panes, nz_vars, store_vars, screen_geometry, window_configs,
                   layouts_data, layouts_keys, views, current_view, menu_shown,
                   dlg_open, selected_layout_name, current_assignments, raised>>

\* ApplicationController.switch_view(view_id)
CallSwitchView(view_id) ==
    /\ ~raised
    /\ \E px \in PixelChoices(ViewRects(view_id), screen_geometry) :
         LET r == SwitchViewOp(view_id, px) IN
         /\ current_view' = r.current
         /\ windows' = r.windows
         /\ window_order' = r.order
         /\ open_panes' = r.panes
    /\ op' = <<"switch_view", view_id>>
    /\ UNCHANGED <<engine_vars, nz_vars, file_vars, save_vars, screen_geometry,
                   window_configs, layouts_data, layouts_keys, is_edit_mode, views,
                   is_expanded, menu_shown, dlg_open, selected_layout_name,
                   current_assignments, raised>>

\* ApplicationController.apply_layout(layout_name, assignments)
CallApplyLayout(layout_name, assignments) ==
    /\ ~raised
    /\ \E px \in PixelChoices(SlotRects(layout_name), screen_geometry) :
         LET r == ApplyLayoutOp(layout_name, assignments, px) IN
         /\ is_edit_mode' = r.edit
         /\ windows' = r.windows
         /\ is_expanded' = r.expanded
         /\ raised' = r.raised
    /\ op' = <<"apply_layout", layout_name>>
    /\ UNCHANGED <<engine_vars, open_panes, nz_vars, store_vars, screen_geometry, window_configs,
                   layouts_data, layouts_keys, views, current_view, menu_shown,
                   dlg_open, selected_layout_name, current_assignments>>

NextApi ==
    \/ CallToggleEditMode
    \/ \E v \in DOMAIN views \cup {"nope"} : CallSwitchView(v)
    \/ \E n \in ApiLayoutNames : \E a \in ApiAssignments(n) : CallApplyLayout(n, a)
SpecApi == Init /\ [][NextApi]_vars

\* a views file with a view that lists powerbi_report twice
TwiceViewsFile ==
    Put(ViewsFile, "twice",
        <<[id |-> "powerbi_report", position |-> Geo(Zero, Zero, Half, One)],
          [id |-> "google_search", position |-> Geo(Zero, Zero, One, Half)],
          [id |-> "powerbi_report", position |-> Geo(Half, Zero, Half, One)]>>)
InitViews ==
    /\ InitEngine /\ InitNormIdle
    /\ Start(File("ok", LayoutsFile, LayoutsFileKeys),
             File("ok", TwiceViewsFile, <<>>), "ok")
SpecViews == InitViews /\ [][NextApi]_vars

\* a views file with a view whose window definition carries a zoom value
ZoomViewsFile ==
    Put(ViewsFile, "zoomed",
        <<[id |-> "google_search", position |-> Geo(Zero, Zero, One, One),
           zoom |-> 150]>>)
ZoomValues == {25, 150}            \* slider range 25 .. 300
InitZoom ==
    /\ InitEngine /\ InitNormIdle
    /\ Start(File("ok", LayoutsFile, LayoutsFileKeys),
             File("ok", ZoomViewsFile, <<>>), "ok")
NextZoom ==
    \/ \E v \in DOMAIN views : SelectView(v)
    \/ \E v \in DOMAIN views : ViewMenuSwitch(v)
    \/ MenuClick
    \/ ToggleEditMode
    \/ \E w \in WindowIds, value \in ZoomValues : SetZoom(w, value)
    \/ \E name \in {"Dashboard", "Zoomed"} :
          SaveCurrentView("view", name, "yes", "ok")
SpecZoom == InitZoom /\ [][NextZoom]_vars

\* ------------------------------------------------ names entered for a view
\* a views file that holds a view saved under the name "My View" by an
\* earlier run
NamedViewsFile ==
    Put(ViewsFile, "my_view",
        <<[id |-> "google_search", position |-> Geo(Zero, Zero, One, One)]>>)
ViewNames == {"My View", "my_view", "MY VIEW", "Wall  2", "Dashboard"}

InitNames ==
    /\ InitEngine /\ InitNormIdle
    /\ Start(File("ok", LayoutsFile, LayoutsFileKeys),
             File("ok", NamedViewsFile, <<>>), "ok")
NextNames ==
    \/ \E v \in DOMAIN views : SelectView(v)
    \/ MenuClick
    \/ ToggleEditMode
    \/ \E name \in ViewNames, answer \in Answers, outcome \in WriteOutcomes :
          SaveCurrentView("view", name, answer, outcome)
SpecNames == InitNames /\ [][NextNames]_vars

\* ------------------------------------------------ normaliser, run on its own
\* save (normalise) the rectangle, then apply (denormalise) what was stored
RoundTrip ==
    /\ nz_pc = "input"
    /\ nz_stored' = NormalizeRect(nz_rect, nz_screen)
    /\ nz_out' \in RectOutcomes(NormalizeRect(nz_rect, nz_screen), nz_screen)
    /\ nz_pc' = "done"
    /\ UNCHANGED <<engine_vars, open_panes, ctl_vars, store_vars, nz_rect, nz_screen>>

InitNorm ==
    /\ InitEngine /\ InitController
    /\ nz_rect \in NormRects /\ nz_screen \in NormScreens
    /\ nz_stored = Geo(Zero, Zero, Zero, Zero)
    /\ nz_out = <<0, 0, 0, 0>> /\ nz_pc = "input"
NextNorm == RoundTrip
SpecNorm == InitNorm /\ [][NextNorm]_vars

\* ===================================================== refresh engine claims
SwapDone == ev[1] = "swap" /\ ev[2] = "done"
NoSurface == background_browser = None /\ background_window = None

\* C1: _perform_smooth_swap installs the page of a background surface only
\* if progress 100 was recorded for that same surface.
C1_SwapOnlyAfterFullProgress == SwapDone => reached100

\* C2: in a cycle where loadFinished(success) arrives once, below 100 %, the
\* early event arms the re-check and no settle timer; no swap installs the
\* surface before progress 100 was recorded, and once every timer of the
\* cycle has run exactly one swap was performed.
C2_EarlyFinishOneSwap ==
    /\ (ev[1] = "finished" /\ ev[2] = "ok" /\ background_load_progress < 100)
          => ev[3] = "recheck"
    /\ (loads = 1 /\ nfinished = 1 /\ early /\ nswaps > 0)
          => (reached100 /\ nswaps = 1)
    /\ (loads = 1 /\ nfinished = 1 /\ early /\ ~closed /\ Pending = 0)
          => (nswaps = 1 /\ page = 1)
C2_Witness ==
    /\ loads = 1 /\ nfinished = 1 /\ early /\ ~closed /\ Pending = 0
    /\ nswaps = 1 /\ page = 1 /\ reached100

\* C3: no swap is performed for a load whose loadFinished reported failure.
C3_NoSwapAfterFailure == SwapDone => ~failed

\* C4: right after _on_background_load_finished handled a failure the pane
\* has no background window and no background browser.
C4_FailureDiscardsSurface ==
    (ev[1] = "finished" /\ ev[2] = "fail") => NoSurface

\* C5: after closeEvent no background load is started, no pending timer
\* performs a swap and the re-check timer does not re-arm itself.
C5_NothingRunsAfterClose ==
    closed => /\ ev[1] # "start"
              /\ ~SwapDone
              /\ ~(ev[1] = "recheck" /\ ev[3] = "recheck")

\* C6 as stated: after _cleanup_preloader the surface is gone and the
\* tracked progress is back at its value before the first timer tick.
C6_CleanupResetsProgress ==
    ev[1] = "cleanup"
      => (NoSurface /\ background_load_progress \in {Unset, 0})

\* C6 amended: after _cleanup_preloader both background references are
\* None; the progress keeps its last value and is set to 0 only when
\* _start_background_load creates the next surface.
C6_CleanupDisposesSurface ==
    /\ ev[1] = "cleanup" => NoSurface
    /\ (ev[1] = "start" /\ ev[2] = "load")
          => (background_load_progress = 0 /\ ~NoSurface)
C6_Witness ==
    /\ ev[1] = "cleanup" /\ nswaps = 1 /\ NoSurface
    /\ background_load_progress = 100

\* ============================================================ layout claims
Applied == op[1] = "apply_layout" /\ op[2] \in DOMAIN layouts_data
AppliedSlots == layouts_data[op[2]].slots
\* the window ids some slot of the applied layout is assigned to
AssignedToSlot ==
    {current_assignments[k] : k \in DOMAIN current_assignments \cap SlotIds(AppliedSlots)}

\* C7: after apply_layout for an existing layout a registered window is
\* visible if and only if some slot of the layout is assigned to it.
C7_VisibleIffAssigned ==
    (Applied /\ ~raised) =>
        \A w \in DOMAIN windows : windows[w].visible <=> w \in AssignedToSlot
C7_Witness ==
    /\ Applied /\ ~raised
    /\ SlotIds(AppliedSlots) \ DOMAIN current_assignments # {}
    /\ \E w \in DOMAIN windows : windows[w].visible
    /\ \E w \in DOMAIN windows : ~windows[w].visible

\* the entries of the assignment that name a registered window
Registered(assignments, ws) ==
    [k \in {j \in DOMAIN assignments : assignments[j] \in DOMAIN ws} |-> assignments[k]]

\* C8: apply_layout with entries naming unregistered window ids raises no
\* error and leaves the state it leaves when those entries are absent.
C8_UnknownWindowSkipped ==
    [][\A px \in PixelChoices(SlotRects(selected_layout_name), screen_geometry) :
         (OnAccept(px) /\ selected_layout_name # "")
           => /\ ~raised'
              /\ LET r == ApplyLayoutOp(selected_layout_name,
                            Registered(current_assignments, windows), px)
                 IN windows' = r.windows /\ is_edit_mode' = r.edit]_vars
C8_Witness ==
    /\ Applied /\ ~raised
    /\ \E k \in DOMAIN current_assignments :
          current_assignments[k] \notin DOMAIN windows
    /\ \E w \in DOMAIN windows : windows[w].visible

\* the slot list and its pixel rectangles in the order p
Permuted(seq, p) == [i \in 1..Len(seq) |-> seq[p[i]]]
Orders(n) == {p \in [1..n -> 1..n] : \A i, j \in 1..n : p[i] = p[j] => i = j}
\* the state apply_layout leaves for every order of the slot list
SameForAllOrders(px) ==
    LET slots == layouts_data[selected_layout_name].slots
        ws == IF is_edit_mode THEN Broadcast(windows, FALSE) ELSE windows
    IN \A p \in Orders(Len(slots)) :
          windows' = ApplyLayoutSlots(ws, Permuted(slots, p),
                        current_assignments, Permuted(px, p)).windows
\* no registered window is assigned to two slots
OneSlotPerWindow(assignments, ws) ==
    \A j, k \in DOMAIN assignments :
        (assignments[j] = assignments[k] /\ assignments[j] \in DOMAIN ws) => j = k

\* C9 as stated: the state after apply_layout is the same for every order
\* of the slot list, for every assignment.
C9_OrderIndependent ==
    [][\A px \in PixelChoices(SlotRects(selected_layout_name), screen_geometry) :
         (OnAccept(px) /\ selected_layout_name \in DOMAIN layouts_data)
           => SameForAllOrders(px)]_vars

\* C9 amended: the same, for assignments that give no registered window
\* to two slots of the layout.
C9_OrderIndependentOneSlot ==
    [][\A px \in PixelChoices(SlotRects(selected_layout_name), screen_geometry) :
         (/\ OnAccept(px) /\ selected_layout_name \in DOMAIN layouts_data
          /\ OneSlotPerWindow(current_assignments, windows))
           => SameForAllOrders(px)]_vars
C9_Witness ==
    /\ Applied /\ ~raised
    /\ Cardinality(DOMAIN current_assignments) = 2
    /\ OneSlotPerWindow(current_assignments, windows)
    /\ \A w \in DOMAIN windows : windows[w].visible
    /\ Cardinality(DOMAIN windows) = 2

\* ======================================================== normaliser claims
WithinOne(a, b) == \A i \in 1..4 : Abs(a[i] - b[i]) <= 1
\* width and height lie in [0.05, 2.0] of the screen: ClampSize keeps them
Unclamped(rect, screen) ==
    /\ 20 * rect[3] >= screen[1] /\ rect[3] <= 2 * screen[1]
    /\ 20 * rect[4] >= screen[2] /\ rect[4] <= 2 * screen[2]

\* C10 as stated: for every rectangle and screen, denormalising the
\* normalised rectangle yields the rectangle within one pixel.
C10_RoundTrip == nz_pc = "done" => WithinOne(nz_out, nz_rect)

\* C10 amended: the same, for rectangles whose width and height lie between
\* 0.05 and 2.0 times the screen width and height.
C10_RoundTripUnclamped ==
    (nz_pc = "done" /\ Unclamped(nz_rect, nz_screen))
      => WithinOne(nz_out, nz_rect)
C10_Witness ==
    /\ nz_pc = "done" /\ Unclamped(nz_rect, nz_screen)
    /\ nz_rect[3] > nz_screen[1]
    /\ nz_out[1] = nz_rect[1] - 1 /\ nz_out[3] = nz_rect[3]

\* ============================================================== save claims
\* the last operation was a save that stored a record
SaveStored ==
    /\ op[1] \in {"save_current_layout", "save_current_view"}
    /\ ui.wrote # "none"
SavedAsLayout ==
    SaveStored /\ (op[1] = "save_current_layout" \/ op[2] = "layout")
SavedAsView == SaveStored /\ op[1] = "save_current_view" /\ op[2] = "view"
SavedName == IF op[1] = "save_current_layout" THEN op[2] ELSE op[3]
\* the rectangles of the record that save stored, one per visible window
SavedRects ==
    IF SavedAsLayout
    THEN [i \in 1..Len(layouts_data[SavedName].slots) |->
            layouts_data[SavedName].slots[i].geometry]
    ELSE [i \in 1..Len(views[ViewIdOf(SavedName)]) |->
            views[ViewIdOf(SavedName)][i].position]
FracEq(f, n, d) == f[1] * d = n * f[2]
InClampRange(f) == ~FracLess(f, Frac(1, 20)) /\ ~FracLess(Frac(2, 1), f)

AppliedSaved ==
    /\ op[1] = "apply_layout" /\ ~raised
    /\ op[2] \in DOMAIN saved_px
    /\ \A w \in DOMAIN saved_px[op[2]] :
         /\ "Slot for " \o w \in DOMAIN current_assignments
         /\ current_assignments["Slot for " \o w] = w

\* C12 as stated: after saving a layout and applying it with every saved
\* slot assigned to its original window, each of those windows is visible
\* with its original pixel geometry within one pixel.
C12_SaveApplyRestores ==
    AppliedSaved =>
      \A w \in DOMAIN saved_px[op[2]] :
         /\ w \in DOMAIN windows /\ windows[w].visible
         /\ WithinOne(windows[w].geo, saved_px[op[2]][w])

\* C12 amended: the same for the windows whose saved width and height lie
\* within 0.05 and 2.0 times the screen; every saved window is visible.
C12_SaveApplyRestoresUnclamped ==
    AppliedSaved =>
      \A w \in DOMAIN saved_px[op[2]] :
         /\ w \in DOMAIN windows /\ windows[w].visible
         /\ Unclamped(saved_px[op[2]][w], screen_geometry)
              => WithinOne(windows[w].geo, saved_px[op[2]][w])
C12_Witness ==
    /\ AppliedSaved
    /\ \E w \in DOMAIN saved_px[op[2]] :
          /\ Unclamped(saved_px[op[2]][w], screen_geometry)
          /\ saved_px[op[2]][w][1] = -64 /\ windows[w].geo[1] = -63
          /\ windows[w].visible

\* a step of one of the two save operations
SaveStep ==
    \E type \in SaveTypes, name \in SaveNames \cup {Cancel}, answer \in Answers,
       outcome \in WriteOutcomes :
         \/ SaveCurrentView(type, name, answer, outcome)
         \/ SaveCurrentLayout(name, answer, outcome)
StoresUnchanged ==
    UNCHANGED <<layouts_data, layouts_keys, views, layouts_file, views_file>>

\* C13: a save started while no registered window is visible stores
\* nothing, leaves both stores and both files as they were, does not open
\* the save dialog and tells the user that there are no windows to save.
C13_NoWindowsNoSave ==
    [][(SaveStep /\ VisibleWindows = <<>>)
         => (StoresUnchanged /\ ~ui'.dialog /\ ui'.msg = "no_windows")]_vars
C13_Witness ==
    /\ op[1] = "save_current_view" /\ ui.msg = "no_windows"
    /\ windows # <<>> /\ VisibleWindows = <<>>

\* the record the last save stored is in memory and is the one captured
\* from the visible windows
RecordInMemory ==
    IF SavedAsLayout
    THEN /\ SavedName \in DOMAIN layouts_data
         /\ layouts_data[SavedName].slots = SlotsOf(VisibleWindows)
    ELSE /\ ViewIdOf(SavedName) \in DOMAIN views
         /\ views[ViewIdOf(SavedName)] = WindowDefsOf(VisibleWindows)

\* C14 as stated: a save whose file write fails leaves the in-memory
\* layouts map and views map as they were before the save.
C14_FailedWriteLeavesMemory ==
    [][(SaveStep /\ ui'.wrote = "failed")
         => UNCHANGED <<layouts_data, layouts_keys, views>>]_vars

\* C14 amended: after a save whose file write failed the in-memory store
\* holds the new or overwritten record.
C14_FailedWriteKeepsRecord ==
    (SaveStored /\ ui.wrote = "failed") => RecordInMemory
C14_Witness ==
    /\ SavedAsLayout /\ ui.wrote = "failed"
    /\ SavedName \in DOMAIN layouts_data
    /\ SavedName \notin DOMAIN layouts_file.data

\* C15: a save whose file write failed ends with the error dialog, never
\* with the message that the record was saved.
C15_WriteFailureSurfaced ==
    (SaveStored /\ ui.wrote = "failed") => ui.msg = "save_error"

C17_FileEqualsMemory ==
    (SaveStored /\ ui.wrote = "ok")
      => IF SavedAsLayout
         THEN layouts_file = File("ok", layouts_data, layouts_keys)
         ELSE views_file = File("ok", views, <<>>)
C17_Witness ==
    /\ SavedAsLayout /\ ui.wrote = "ok"
    /\ SavedName \notin DOMAIN LayoutsFile
    /\ DOMAIN layouts_file.data = DOMAIN LayoutsFile \cup {SavedName}
    /\ \A k \in DOMAIN LayoutsFile : layouts_file.data[k] = LayoutsFile[k]

\* C18: as long as no save has stored a record, the views file and the
\* layouts file hold what they held when the program was started: start-up
\* loading and the other operations write neither file.
C18_OnlySavesChangeFiles ==
    nsaves = 0 => (views_file = views_file0 /\ layouts_file = layouts_file0)

\* =============================================================== view claims
ViewIds(v) == {views[v][i].id : i \in 1..Len(views[v])}

\* C19: applying a view raises no error and leaves in the registry exactly
\* the view's ids that are in the window-configuration list, each window
\* shown with the pixel rectangle of one of its definitions.
C19_ViewCreatesConfiguredWindows ==
    [][\A v \in DOMAIN views :
         (SelectView(v) \/ ViewMenuSwitch(v))
           => /\ ~raised'
              /\ DOMAIN windows' = ViewIds(v) \cap Range(WindowConfigs)
              /\ \A w \in DOMAIN windows' :
                   /\ windows'[w].visible
                   /\ \E i \in 1..Len(views[v]) :
                        /\ views[v][i].id = w
                        /\ windows'[w].geo \in
                             RectOutcomes(views[v][i].position, screen_geometry)]_vars
C19_Witness ==
    /\ op = <<"switch_view", "monitoring">>
    /\ "pi_vision" \in ViewIds("monitoring")
    /\ DOMAIN windows = {"google_search"}
    /\ windows["google_search"].visible

\* C20: every registered window shows its edit overlay exactly when the
\* controller's edit-mode flag is set.
C20_OverlayIffEditMode ==
    \A w \in DOMAIN windows : windows[w].overlay = is_edit_mode

\* ====================================================== view and menu claims
\* the id str.lower().replace(" ", "_") yields for each entered name
ExpectedViewId ==
    [name \in ViewNames |->
       CASE name = "My View" -> "my_view"
         [] name = "my_view" -> "my_view"
         [] name = "MY VIEW" -> "my_view"
         [] name = "Wall  2" -> "wall__2"
         [] name = "Dashboard" -> "dashboard"]

\* C21: a view is stored under the entered name lower-cased with every
\* space replaced by an underscore; a name whose derived id is already
\* stored asks the overwrite question and, after Yes, replaces that record;
\* no record is stored under another key.
C21_SameIdSameView ==
    [][\A name \in ViewNames, answer \in Answers, outcome \in WriteOutcomes :
         (SaveCurrentView("view", name, answer, outcome)
            /\ ~NothingToSave(VisibleWindows))
           => LET id == ExpectedViewId[name] IN
              /\ ui'.asked <=> id \in DOMAIN views
              /\ IF id \in DOMAIN views /\ answer # "yes"
                 THEN views' = views
                 ELSE /\ DOMAIN views' = DOMAIN views \cup {id}
                      /\ views'[id] = WindowDefsOf(VisibleWindows)
                      /\ \A k \in DOMAIN views \ {id} : views'[k] = views[k]]_vars
C21_Witness ==
    /\ op = <<"save_current_view", "view", "My View">>
    /\ ui.asked /\ ui.msg = "saved"
    /\ DOMAIN views = DOMAIN NamedViewsFile
    /\ views["my_view"] # NamedViewsFile["my_view"]

\* ============================================== refresh engine claims, second part
\* C22: _perform_smooth_swap never installs the page of the background
\* surface when the visible view already shows that page, so the page it
\* hands to deleteLater is never the page displayed after the swap.
C22_NoSwapOntoShownPage ==
    [][(PerformSmoothSwap /\ SwapDone') => page # background_browser]_vars

\* C23: with every timer callback delivered, a load whose loadFinished
\* (success) arrived below 100 % and armed the re-check eventually leaves
\* the pane with no background surface and no re-check timer pending: the
\* re-check does not re-arm itself for ever.
C23_RecheckEventuallyEnds ==
    (ev[1] = "finished" /\ ev[3] = "recheck")
       ~> (NoSurface /\ pending["recheck"] = 0)

\* C24: at any time at most one off-screen surface exists, and it is the
\* one background_window refers to, and at most one refresh timer runs: a
\* tick closes the surface of the previous cycle before it creates the next
\* one, and load_url stops the running timer before it starts a new one.
C24_OneSurfaceOneTimer ==
    /\ Cardinality(surfaces) <= 1
    /\ surfaces \subseteq {background_window}
    /\ timers <= 1
    /\ timers = (IF refresh_timer = "running" THEN 1 ELSE 0)
C24_Witness ==
    /\ ev = Event("start", "load", "none") /\ replaced
    /\ loads = 2 /\ surfaces = {2}
    /\ timers = 1 /\ ~closed

\* ================================================ controller claims, second part
\* C25: after apply_layout the controller is not in edit mode and no
\* registered window shows its edit overlay, whatever the mode was and
\* whether or not the layout name is known; for an unknown name no window
\* is hidden, shown, moved, added or removed.
C25_ApplyLayoutLeavesEditMode ==
    [][op'[1] = "apply_layout"
         => /\ ~is_edit_mode'
            /\ \A w \in DOMAIN windows' : ~windows'[w].overlay
            /\ op'[2] \notin DOMAIN layouts_data
                 => /\ DOMAIN windows' = DOMAIN windows
                    /\ \A w \in DOMAIN windows :
                         /\ windows'[w].visible = windows[w].visible
                         /\ windows'[w].geo = windows[w].geo]_vars
C25_Witness ==
    /\ op = <<"apply_layout", "nope">> /\ ~is_edit_mode
    /\ \E w \in DOMAIN windows : windows[w].visible
    /\ \E w \in DOMAIN windows : ~windows[w].visible

\* C26: the pane windows that exist are exactly the registered ones, one
\* per id: a switch closes and drops every window of the previous view, and
\* a view that lists an id twice leaves one window for it, the registered
\* one.
C26_OpenWindowsRegistered ==
    /\ Range(open_panes) = DOMAIN windows
    /\ Len(open_panes) = Cardinality(DOMAIN windows)
C26_Witness ==
    /\ op = <<"switch_view", "twice">> /\ current_view = "twice"
    /\ open_panes = <<"google_search", "powerbi_report">>
    /\ windows["powerbi_report"].geo[1] = 640

\* C27: after a view was applied, every window created for a definition
\* that carries a zoom value has that zoom.
C27_ZoomRestored ==
    (op = <<"switch_view", current_view>> /\ current_view \in DOMAIN views)
      => \A i \in 1..Len(views[current_view]) :
            LET def == views[current_view][i] IN
            ("zoom" \in DOMAIN def /\ def.id \in DOMAIN windows)
               => windows[def.id].zoom = def.zoom

\* C28: every step that runs toggle_edit_mode (the only code that flips the
\* edit-mode flag) leaves the floating menu collapsed.
C28_ToggleEditModeClosesMenu ==
    [][(is_edit_mode' # is_edit_mode) => ~is_expanded']_vars

\* C29: while the Screen Manager dialog is open every key of the assignment
\* is a slot id of the selected layout; load_data and a layout selection
\* leave the assignment empty; Apply hands apply_layout the selected name
\* and the assignment as they stand; Cancel leaves the controller as it was.
C29_AssignmentMatchesSelection ==
    [][/\ dlg_open' => DOMAIN current_assignments' \subseteq DropZones'
       /\ op'[1] \in {"open_screen_manager", "on_layout_selected"}
            => current_assignments' = <<>>
       /\ op'[1] = "apply_layout"
            => /\ op'[2] = selected_layout_name
               /\ \E px \in PixelChoices(SlotRects(selected_layout_name),
                                         screen_geometry) :
                     LET r == ApplyLayoutOp(selected_layout_name,
                                            current_assignments, px)
                     IN windows' = r.windows /\ is_edit_mode' = r.edit
       /\ op'[1] = "reject"
            => UNCHANGED <<windows, is_edit_mode, is_expanded, layouts_data,
                           views, current_view>>]_vars
C29_Witness ==
    /\ dlg_open /\ selected_layout_name = "columns"
    /\ DOMAIN current_assignments = {"left", "right"}

\* the view last switched to was saved from the arrangement on screen
SwitchedToSaved ==
    /\ op[1] = "switch_view" /\ current_view = op[2] /\ ~raised
    /\ ViewKey(op[2]) \in DOMAIN saved_px
SavedFrom == saved_px[ViewKey(op[2])]

\* C30 as stated: after saving a view and switching to it, the open windows
\* are exactly the windows visible at the time of the save, each visible
\* with its pixel geometry of that time within one pixel.
C30_SaveSwitchRestores ==
    SwitchedToSaved =>
      /\ DOMAIN windows = DOMAIN SavedFrom
      /\ \A w \in DOMAIN SavedFrom :
            windows[w].visible /\ WithinOne(windows[w].geo, SavedFrom[w])

\* C30 amended: the same windows, all visible; those whose saved width and
\* height lie within 0.05 and 2.0 times the screen have their geometry
\* within one pixel.
C30_SaveSwitchRestoresUnclamped ==
    SwitchedToSaved =>
      /\ DOMAIN windows = DOMAIN SavedFrom
      /\ \A w \in DOMAIN SavedFrom :
            /\ windows[w].visible
            /\ Unclamped(SavedFrom[w], screen_geometry)
                 => WithinOne(windows[w].geo, SavedFrom[w])
C30_Witness ==
    /\ SwitchedToSaved
    /\ DOMAIN SavedFrom = {"powerbi_report"}
    /\ SavedFrom["powerbi_report"][1] = -64
    /\ windows["powerbi_report"].geo[1] = -63
====
